---- MODULE Spec2Model ----
(***************************************************************************)
(* ColorVM (src/colorvm.py): a three-channel stack machine.  The channels  *)
(* r, g, b run round-robin, one instruction per pass each, and share the   *)
(* alpha stack 'a' and the wait queue 'waitstack'.                         *)
(*                                                                         *)
(* Stacks are sequences whose LAST element is the top (Python list         *)
(* append/pop).  colorip is 0-based as in the source; colorcode[c] is a    *)
(* 1-based sequence, so the byte at ip is colorcode[c][ip + 1].            *)
(***************************************************************************)
EXTENDS Integers, Sequences, FiniteSets, TLC

VARIABLES
    size,         \* program length read from header cell 1
    colorcode,    \* the three code arrays
    colorstate,   \* execution state of each channel
    colorip,      \* instruction pointer of each channel
    colorstack,   \* stacks of r, g, b and the alpha stack a
    colorstat,    \* per-channel, per-mnemonic counters
    waitstack,    \* channels in AWAIT, in order of suspension
    output,       \* what print() has written so far
    terminate,    \* the main loop's exit flag
    message,      \* the mesg() emitted by the termination check
    pc,           \* "loop": inside the for-loop, "check": after it,
                  \* "exit": loop left, "crash": uncaught exception
    color,        \* index into colors of the channel whose turn it is
    passes,       \* number of completed passes of the while-loop
    resumed,      \* history: channels taken out of AWAIT in this pass
    passwait,     \* history: waitstack as it stood when this pass began
    last,         \* history: what the latest turn of each channel did
    executed,     \* history: instructions executed so far, per mnemonic
    suspendstat,  \* history: a channel's waita counter before it suspended
    decode        \* the image and the position of the decoder in it

vars == <<size, colorcode, colorstate, colorip, colorstack, colorstat,
          waitstack, output, terminate, message, pc, color, passes,
          resumed, passwait, last, executed, suspendstat, decode>>

----------------------------------------------------------------------------
(* Bounds of the model *)

MaxSize == 4
MaxPasses == 7

----------------------------------------------------------------------------
(* Program constants *)

LOADING == 1
RUNNING == 2
AWAIT == 3
HALTED == 4
OVERRUN == 5

ADD == 128
SUB == 132
MUL == 136
DIV == 140
REM == 144
POP == 148
SWAP == 152
DUP == 156
ROT == 160
NOT == 164
OR == 168
AND == 172
GT == 176
EQ == 180
LT == 184
NOP == 188
HALT == 192
JMPZ == 196
JMPNZ == 200
OUTC == 204
INC == 208
OUTI == 212
INI == 216
PUSHA == 220
WAITA == 224
NEG == 228
SHL == 232
SHR == 236

MaxPushByte == 127
MaxAscii == 127
MaxCodePoint == 1114111

colors == <<"r", "g", "b">>

Channels == {"r", "g", "b"}

Mnemonics ==
    {"push", "add", "sub", "mul", "div", "rem", "pop", "swap", "dup", "rot",
     "not", "or", "and", "gt", "eq", "lt", "nop", "halt", "jmpz", "jmpnz",
     "outc", "inc", "outi", "ini", "pusha", "waita", "neg", "shl", "shr"}

disasmdict ==
    (ADD :> "add") @@ (SUB :> "sub") @@ (MUL :> "mul") @@ (DIV :> "div") @@
    (REM :> "rem") @@ (POP :> "pop") @@ (SWAP :> "swap") @@ (DUP :> "dup") @@
    (ROT :> "rot") @@ (NOT :> "not") @@ (OR :> "or") @@ (AND :> "and") @@
    (GT :> "gt") @@ (EQ :> "eq") @@ (LT :> "lt") @@ (NOP :> "nop") @@
    (HALT :> "halt") @@ (JMPZ :> "jmpz") @@ (JMPNZ :> "jmpnz") @@
    (OUTC :> "outc") @@ (INC :> "inc") @@ (OUTI :> "outi") @@ (INI :> "ini") @@
    (PUSHA :> "pusha") @@ (WAITA :> "waita") @@ (NEG :> "neg") @@
    (SHL :> "shl") @@ (SHR :> "shr")

----------------------------------------------------------------------------
(* Python list and integer primitives *)

Top(s) == s[Len(s)]

Pop(s) == SubSeq(s, 1, Len(s) - 1)

\* list.insert(i, x) for i >= 0: positions past the end append
Insert(s, i, x) ==
    LET k == IF i > Len(s) THEN Len(s) ELSE i
    IN  SubSeq(s, 1, k) \o <<x>> \o SubSeq(s, k + 1, Len(s))

\* x // y for y # 0 (floor division)
FloorDiv(x, y) == x \div y

\* x % y for y # 0: the result takes the sign of the divisor
PyMod(x, y) == x - y * (x \div y)

RECURSIVE Pow2(_)
Pow2(n) == IF n <= 0 THEN 1 ELSE 2 * Pow2(n - 1)

\* x & y on two's-complement integers of unbounded width
RECURSIVE BitAnd(_, _)
BitAnd(x, y) ==
    IF x = 0 \/ y = 0 THEN 0
    ELSE IF x = -1 THEN y
    ELSE IF y = -1 THEN x
    ELSE (x % 2) * (y % 2) + 2 * BitAnd(x \div 2, y \div 2)

\* x | y on two's-complement integers of unbounded width
RECURSIVE BitOr(_, _)
BitOr(x, y) ==
    IF x = 0 THEN y
    ELSE IF y = 0 THEN x
    ELSE IF x = -1 \/ y = -1 THEN -1
    ELSE (IF x % 2 = 1 \/ y % 2 = 1 THEN 1 ELSE 0)
         + 2 * BitOr(x \div 2, y \div 2)

\* ~x
BitNot(x) == (0 - x) - 1

----------------------------------------------------------------------------
(* Standard input: input() returns a line (a sequence of code points) or  *)
(* raises EOFError                                                         *)

InputLines == {<<>>, <<65>>, <<55>>, <<49, 50>>, <<120, 55>>}

Inputs ==
    {[eof |-> TRUE, line |-> <<>>]}
        \cup {[eof |-> FALSE, line |-> l] : l \in InputLines}

\* the input of a turn that reads nothing
NoInput == [eof |-> TRUE, line |-> <<>>]

IsDigit(ch) == 48 <= ch /\ ch <= 57

\* str.isdecimal(): non-empty and all characters decimal digits
IsDecimal(line) == Len(line) >= 1 /\ \A i \in 1..Len(line) : IsDigit(line[i])

\* int(value) of a decimal string
RECURSIVE ParseInt(_)
ParseInt(line) ==
    IF Len(line) = 0 THEN 0
    ELSE 10 * ParseInt(Pop(line)) + (Top(line) - 48)

----------------------------------------------------------------------------
(* The machine: the mutable globals colorexec and the main sequence work   *)
(* on, as one record.  crash is TRUE once an exception has been raised;    *)
(* the fields then hold what had been mutated before the raise.            *)

Machine ==
    [stack |-> colorstack, state |-> colorstate, ip |-> colorip,
     stat |-> colorstat, wait |-> waitstack, out |-> output, crash |-> FALSE]

\* colorstat[c][name] += 1
Count(m, c, name) == [m EXCEPT !.stat[c][name] = @ + 1]

\* an uncaught exception
Raise(m) == [m EXCEPT !.crash = TRUE]

\* the byte colorcode[c][colorip[c]]
CodeAt(m, c) == colorcode[c][m.ip[c] + 1]

\* the value pushed by a two-operand instruction; x is popped first, then y
BinaryResult(name, x, y) ==
    CASE name = "add" -> x + y
      [] name = "sub" -> x - y
      [] name = "mul" -> x * y
      [] name = "div" -> FloorDiv(x, y)
      [] name = "rem" -> PyMod(x, y)
      [] name = "or" -> BitOr(x, y)
      [] name = "and" -> BitAnd(x, y)
      [] name = "gt" -> IF x > y THEN 1 ELSE 0
      [] name = "eq" -> IF x = y THEN 1 ELSE 0
      [] name = "lt" -> IF x < y THEN 1 ELSE 0

\* the value pushed by a one-operand instruction
UnaryResult(name, x) ==
    CASE name = "not" -> BitNot(x)
      [] name = "neg" -> 0 - x

\* add, sub, mul, or, and, gt, eq, lt
Binary(m, c, name) ==
    LET s == m.stack[c]
    IN  IF Len(s) >= 2
        THEN Count([m EXCEPT !.stack[c] =
                      Append(Pop(Pop(s)),
                             BinaryResult(name, Top(s), Top(Pop(s))))],
                   c, name)
        ELSE Count(m, c, name)

\* not, neg
Unary(m, c, name) ==
    LET s == m.stack[c]
    IN  IF Len(s) >= 1
        THEN Count([m EXCEPT !.stack[c] =
                      Append(Pop(s), UnaryResult(name, Top(s)))], c, name)
        ELSE Count(m, c, name)

\* div, rem: both operands are popped before // or % raises on a zero divisor
Division(m, c, name) ==
    LET s == m.stack[c]
    IN  IF Len(s) >= 2
        THEN IF Top(Pop(s)) = 0
             THEN Raise([m EXCEPT !.stack[c] = Pop(Pop(s))])
             ELSE Count([m EXCEPT !.stack[c] =
                      Append(Pop(Pop(s)),
                             BinaryResult(name, Top(s), Top(Pop(s))))],
                   c, name)
        ELSE Count(m, c, name)

\* shl and shr both compute value << shiftval; a negative shift count raises
Shift(m, c, name) ==
    LET s == m.stack[c]
        shiftval == Top(s)
        value == Top(Pop(s))
    IN  IF Len(s) >= 2
        THEN IF shiftval < 0
             THEN Raise([m EXCEPT !.stack[c] = Pop(Pop(s))])
             ELSE Count([m EXCEPT !.stack[c] =
                        Append(Pop(Pop(s)), value * Pow2(shiftval))], c, name)
        ELSE Count(m, c, name)

ExecPop(m, c) ==
    LET s == m.stack[c]
    IN  IF Len(s) >= 1
        THEN Count([m EXCEPT !.stack[c] = Pop(s)], c, "pop")
        ELSE Count(m, c, "pop")

ExecSwap(m, c) ==
    LET s == m.stack[c]
    IN  IF Len(s) >= 2
        THEN Count([m EXCEPT !.stack[c] =
                        Append(Append(Pop(Pop(s)), Top(s)), Top(Pop(s)))],
                   c, "swap")
        ELSE Count(m, c, "swap")

ExecDup(m, c) ==
    LET s == m.stack[c]
    IN  IF Len(s) >= 1
        THEN Count([m EXCEPT !.stack[c] = Append(s, Top(s))], c, "dup")
        ELSE Count(m, c, "dup")

\* rot: torot is popped before the depth test; extract is popped from the
\* rest (IndexError when the rest is empty) and inserted torot places down
ExecRot(m, c) ==
    LET s == m.stack[c]
        torot == Top(s)
        rest == Pop(s)
        extract == Top(rest)
        body == Pop(rest)
    IN  IF Len(s) >= 1
        THEN IF Len(rest) >= torot
             THEN IF Len(rest) = 0
                  THEN Raise([m EXCEPT !.stack[c] = rest])
                  ELSE Count([m EXCEPT !.stack[c] =
                         Insert(body, (Len(body) - 1) - (torot - 2), extract)],
                         c, "rot")
             ELSE Count([m EXCEPT !.stack[c] = rest], c, "rot")
        ELSE Count(m, c, "rot")

\* JumpTarget without the range test on the address
JumpTargetUnchecked(address) == address - 1

\* JumpTarget storing the address itself
JumpTargetOffByOne(address) ==
    IF 0 <= address /\ address < size THEN address ELSE size - 1

\* JumpTarget storing size for an address out of range
JumpTargetPastEnd(address) ==
    IF 0 <= address /\ address < size THEN address - 1 ELSE size

\* the value jmpz/jmpnz store in colorip for a taken jump; the main sequence
\* adds 1 afterwards
JumpTarget(address) ==
    IF 0 <= address /\ address < size THEN address - 1 ELSE size - 1

\* ExecJump popping its operands only when the jump is taken
ExecJumpKeepsOperands(m, c, name, onzero) ==
    LET s == m.stack[c]
        value == Top(s)
        address == Top(Pop(s))
        popped == [m EXCEPT !.stack[c] = Pop(Pop(s))]
    IN  IF Len(s) >= 2
        THEN IF (value = 0) = onzero
             THEN Count([popped EXCEPT !.ip[c] = JumpTarget(address)], c, name)
             ELSE Count(m, c, name)
        ELSE Count(m, c, name)

\* jmpz (onzero = TRUE) and jmpnz (onzero = FALSE)
ExecJump(m, c, name, onzero) ==
    LET s == m.stack[c]
        value == Top(s)
        address == Top(Pop(s))
        popped == [m EXCEPT !.stack[c] = Pop(Pop(s))]
    IN  IF Len(s) >= 2
        THEN IF (value = 0) = onzero
             THEN Count([popped EXCEPT !.ip[c] = JumpTarget(address)], c, name)
             ELSE Count(popped, c, name)
        ELSE Count(m, c, name)

\* outc: chr() raises outside 0..0x10FFFF; only ASCII characters are printed
ExecOutc(m, c) ==
    LET s == m.stack[c]
        n == Top(s)
        popped == [m EXCEPT !.stack[c] = Pop(s)]
    IN  IF Len(s) >= 1
        THEN IF n < 0 \/ n > MaxCodePoint
             THEN Raise(popped)
             ELSE IF n <= MaxAscii
                  THEN Count([popped EXCEPT !.out = Append(@, <<"c", n>>)],
                             c, "outc")
                  ELSE Count(popped, c, "outc")
        ELSE Count(m, c, "outc")

\* outi
ExecOuti(m, c) ==
    LET s == m.stack[c]
    IN  IF Len(s) >= 1
        THEN Count([m EXCEPT !.stack[c] = Pop(s),
                             !.out = Append(@, <<"i", Top(s)>>)], c, "outi")
        ELSE Count(m, c, "outi")

\* inc: input() raises at end of file, char[0] raises on an empty line
ExecInc(m, c, in) ==
    IF in.eof \/ Len(in.line) = 0
    THEN Raise(m)
    ELSE Count([m EXCEPT !.stack[c] = Append(@, in.line[1])], c, "inc")

\* ini: a line that is not decimal pushes nothing
ExecIni(m, c, in) ==
    IF in.eof
    THEN Raise(m)
    ELSE IF IsDecimal(in.line)
         THEN Count([m EXCEPT !.stack[c] = Append(@, ParseInt(in.line))],
                    c, "ini")
         ELSE Count(m, c, "ini")

\* ExecPusha copying the top to alpha without popping it
ExecPushaPeek(m, c) ==
    LET s == m.stack[c]
    IN  IF Len(s) >= 1
        THEN Count([m EXCEPT !.stack["a"] = Append(@, Top(s))], c, "pusha")
        ELSE Count(m, c, "pusha")

\* pusha
ExecPusha(m, c) ==
    LET s == m.stack[c]
    IN  IF Len(s) >= 1
        THEN Count([m EXCEPT !.stack[c] = Pop(s),
                             !.stack["a"] = Append(@, Top(s))], c, "pusha")
        ELSE Count(m, c, "pusha")

\* Suspend that forgets to queue the channel
SuspendUnqueued(m, c) ==
    [m EXCEPT !.state[c] = AWAIT,
              !.ip[c] = @ - 1]

\* waita, alpha empty: suspend, queue the channel, stay on the waita
Suspend(m, c) ==
    [m EXCEPT !.state[c] = AWAIT,
              !.wait = Append(@, c),
              !.ip[c] = @ - 1]

\* TakeAlpha taking the oldest value of alpha
TakeAlphaOldest(m, c) ==
    [m EXCEPT !.stack[c] = Append(@, Head(m.stack["a"])),
              !.stack["a"] = Tail(@),
              !.state[c] = RUNNING]

\* waita, alpha non-empty: take the top of alpha
TakeAlpha(m, c) ==
    [m EXCEPT !.stack[c] = Append(@, Top(m.stack["a"])),
              !.stack["a"] = Pop(@),
              !.state[c] = RUNNING]

\* waita
ExecWaita(m, c) ==
    IF Len(m.stack["a"]) >= 1
    THEN Count(TakeAlpha(m, c), c, "waita")
    ELSE Count(Suspend(m, c), c, "waita")

\* case _: the byte is no instruction; the channel is halted
ExecInvalid(m, c) == [m EXCEPT !.state[c] = HALTED]

\* colorexec(colortoexec): one instruction of channel c, without the
\* advance of colorip, which its callers do
colorexec(m, c, in) ==
    LET b == CodeAt(m, c)
    IN  IF 0 <= b /\ b <= MaxPushByte
        THEN Count([m EXCEPT !.stack[c] = Append(@, b)], c, "push")
        ELSE CASE b = ADD -> Binary(m, c, "add")
               [] b = SUB -> Binary(m, c, "sub")
               [] b = MUL -> Binary(m, c, "mul")
               [] b = DIV -> Division(m, c, "div")
               [] b = REM -> Division(m, c, "rem")
               [] b = POP -> ExecPop(m, c)
               [] b = SWAP -> ExecSwap(m, c)
               [] b = DUP -> ExecDup(m, c)
               [] b = ROT -> ExecRot(m, c)
               [] b = NOT -> Unary(m, c, "not")
               [] b = OR -> Binary(m, c, "or")
               [] b = AND -> Binary(m, c, "and")
               [] b = GT -> Binary(m, c, "gt")
               [] b = EQ -> Binary(m, c, "eq")
               [] b = LT -> Binary(m, c, "lt")
               [] b = JMPZ -> ExecJump(m, c, "jmpz", TRUE)
               [] b = JMPNZ -> ExecJump(m, c, "jmpnz", FALSE)
               [] b = OUTC -> ExecOutc(m, c)
               [] b = INC -> ExecInc(m, c, in)
               [] b = OUTI -> ExecOuti(m, c)
               [] b = INI -> ExecIni(m, c, in)
               [] b = PUSHA -> ExecPusha(m, c)
               [] b = WAITA -> ExecWaita(m, c)
               [] b = NEG -> Unary(m, c, "neg")
               [] b = SHL -> Shift(m, c, "shl")
               [] b = SHR -> Shift(m, c, "shr")
               [] OTHER -> ExecInvalid(m, c)

\* does the instruction at ip read standard input?
ReadsInput(b) == b = INC \/ b = INI

----------------------------------------------------------------------------
(* The main sequence *)

\* CheckOverrun testing one cell early
CheckOverrunEarly(m, c) ==
    IF m.ip[c] = size - 1 THEN [m EXCEPT !.state[c] = OVERRUN] ELSE m

\* if colorip[color] == size: colorstate[color] = OVERRUN
CheckOverrun(m, c) ==
    IF m.ip[c] = size THEN [m EXCEPT !.state[c] = OVERRUN] ELSE m

\* colorip[color] += 1, then the overrun test
Advance(m, c) == CheckOverrun([m EXCEPT !.ip[c] = @ + 1], c)

\* case nop of the RUNNING branch
TurnNop(m, c) == Advance(Count(m, c, "nop"), c)

\* TurnHalt advancing colorip as nop does
TurnHaltAdvancing(m, c) ==
    Advance([Count(m, c, "halt") EXCEPT !.state[c] = HALTED], c)

\* case halt of the RUNNING branch: colorip is not advanced
TurnHalt(m, c) == [Count(m, c, "halt") EXCEPT !.state[c] = HALTED]

\* case _ of the RUNNING branch; an exception leaves the loop at once
TurnExec(m, c, in) ==
    LET m1 == colorexec(m, c, in)
    IN  IF m1.crash THEN m1 ELSE Advance(m1, c)

\* IsHead accepting any queued channel
IsQueued(w, c) == \E i \in 1..Len(w) : w[i] = c

\* waitstack[0] == color, for a non-empty waitstack
IsHead(w, c) == w[1] = c

\* Dequeue taking the most recent entry: waitstack.pop()
DequeueLast(w) == Pop(w)

\* waitstack.pop(0)
Dequeue(w) == Tail(w)

\* the AWAIT branch: waitstack[0] raises IndexError on an empty waitstack;
\* for the head of waitstack the waita counter goes up on every visit, and
\* TurnAwait without the counter increment of line 552
TurnAwaitUncounted(m, c, in) ==
    IF m.wait = <<>>
    THEN Raise(m)
    ELSE IF Len(m.stack["a"]) >= 1
         THEN LET m2 == colorexec([m EXCEPT !.wait = Dequeue(@)], c, in)
              IN  IF m2.crash THEN m2 ELSE Advance(m2, c)
         ELSE m

\* with data in alpha the channel is dequeued and re-executes its waita
TurnAwait(m, c, in) ==
    LET m1 == Count(m, c, "waita")
    IN  IF m.wait = <<>>
        THEN Raise(m)
        ELSE IF Len(m1.stack["a"]) >= 1
             THEN LET m2 == colorexec([m1 EXCEPT !.wait = Dequeue(@)], c, in)
                  IN  IF m2.crash THEN m2 ELSE Advance(m2, c)
             ELSE m1

\* Verdict with the two messages exchanged
VerdictExchanged(run, await) ==
    IF run = 0
    THEN IF await = 0
         THEN [terminate |-> TRUE, message |-> "Thread deadlock"]
         ELSE [terminate |-> TRUE, message |-> "Threads halted"]
    ELSE [terminate |-> FALSE, message |-> ""]

\* the counts of the termination check and what it decides
Verdict(run, await) ==
    IF run = 0
    THEN IF await # 0
         THEN [terminate |-> TRUE, message |-> "Thread deadlock"]
         ELSE [terminate |-> TRUE, message |-> "Threads halted"]
    ELSE [terminate |-> FALSE, message |-> ""]

tmprun == Cardinality({c \in Channels : colorstate[c] = RUNNING})

tmpawait == Cardinality({c \in Channels : colorstate[c] = AWAIT})

----------------------------------------------------------------------------
(* Program images *)

\* operand values pushed in front of the instruction under test
Vals == {0, 1, 3}

\* every assigned opcode and two unassigned bytes
TestBytes == DOMAIN disasmdict \cup {129, 255}

\* one instruction on an empty stack, on one, two and three operands, and
\* on a negative operand
OpPrograms ==
    {<<op>> : op \in TestBytes}
        \cup {<<a, op>> : a \in Vals, op \in TestBytes}
        \cup {<<a, b, op>> : a \in Vals, b \in Vals, op \in TestBytes}
        \cup {<<1, NEG, a, op>> : a \in Vals, op \in TestBytes}
        \cup {<<a, 1, NEG, op>> : a \in Vals, op \in TestBytes}
        \cup {<<a, b, c, ROT>> : a \in {5}, b \in {6}, c \in 0..3}

\* conditional jumps: taken and not taken, to 0, in range, out of range
JumpPrograms ==
    {<<0, 0, JMPZ>>, <<3, 0, JMPZ, 9>>, <<9, 0, JMPZ>>, <<4, 0, JMPZ>>,
     <<1, NEG, 0, JMPZ>>, <<2, 1, JMPZ, 5>>, <<0, 1, JMPNZ>>,
     <<3, 1, JMPNZ, 9>>, <<9, 1, JMPNZ>>, <<2, 0, JMPNZ, 5>>,
     <<NOP, 1, 1, JMPNZ>>}

\* channels that only pass the time
IdlePrograms == {<<HALT>>, <<NOP, NOP, NOP, NOP>>}

\* producers and consumers of the alpha stack
SyncPrograms ==
    {<<WAITA, OUTI>>, <<NOP, WAITA>>, <<WAITA, WAITA>>,
     <<1, PUSHA>>, <<1, 2, PUSHA, PUSHA>>, <<1, PUSHA, WAITA, OUTI>>,
     <<HALT>>, <<NOP, NOP, NOP, NOP>>}

Images ==
    {[r |-> p, g |-> q, b |-> t] :
        p \in OpPrograms \cup JumpPrograms, q \in IdlePrograms,
        t \in IdlePrograms}
    \cup {[r |-> p, g |-> q, b |-> t] :
        p \in SyncPrograms, q \in SyncPrograms, t \in SyncPrograms}

\* the first n cells of a program; cells past its end are halt
Cells(p, n) == [i \in 1..n |-> IF i <= Len(p) THEN p[i] ELSE HALT]

\* the scenarios S4 and S6 of the specification, at their own length
S4Image ==
    [r |-> <<42, PUSHA, HALT>>, g |-> <<WAITA, OUTI, HALT>>,
     b |-> <<HALT, HALT, HALT>>]

S6Image ==
    [r |-> <<5, 4, 0, JMPZ, 99, OUTI, HALT>>,
     g |-> <<NOP, NOP, NOP, NOP, NOP, NOP, HALT>>,
     b |-> <<HALT, HALT, HALT, HALT, HALT, HALT, HALT>>]

Scenarios == {S4Image, S6Image}

ZeroStat == [c \in Channels |-> [n \in Mnemonics |-> 0]]

\* the decoder has finished: the main sequence does not touch the image
Decoded ==
    [phase |-> "done", img |-> <<>>, imgxsize |-> 0, imgysize |-> 0,
     majorver |-> 0, minorver |-> 0, cellsize |-> 0,
     x |-> 0, y |-> 0, i |-> 0, cells |-> <<>>]

Init ==
    /\ \/ /\ size \in 1..MaxSize
          /\ \E img \in Images :
                colorcode = [c \in Channels |-> Cells(img[c], size)]
       \/ \E img \in Scenarios :
             /\ size = Len(img["r"])
             /\ colorcode = [c \in Channels |-> img[c]]
    /\ colorstate = [c \in Channels |-> RUNNING]
    /\ colorip = [c \in Channels |-> 0]
    /\ colorstack = [c \in Channels \cup {"a"} |-> <<>>]
    /\ colorstat = ZeroStat
    /\ waitstack = <<>>
    /\ output = <<>>
    /\ terminate = FALSE
    /\ message = ""
    /\ pc = "loop"
    /\ color = 1
    /\ passes = 0
    /\ resumed = <<>>
    /\ passwait = <<>>
    /\ last = [c \in Channels |->
                 [event |-> "init", byte |-> -1, ip |-> 0, depth |-> 0]]
    /\ executed = [n \in Mnemonics |-> 0]
    /\ suspendstat = [c \in Channels |-> 0]
    /\ decode = Decoded

----------------------------------------------------------------------------
(* Actions: one turn of the for-loop, or the termination check *)

\* the channel whose turn it is
cur == colors[color]

\* the globals take the values of the machine m; the for-loop moves on,
\* or ends after "b", or is left by an exception
Store(m) ==
    /\ colorstack' = m.stack
    /\ colorstate' = m.state
    /\ colorip' = m.ip
    /\ colorstat' = m.stat
    /\ waitstack' = m.wait
    /\ output' = m.out
    /\ pc' = IF m.crash THEN "crash"
             ELSE IF color < Len(colors) THEN "loop" ELSE "check"
    /\ color' = IF m.crash THEN color
                ELSE IF color < Len(colors) THEN color + 1 ELSE 1
    /\ UNCHANGED <<size, colorcode, terminate, message, passes, passwait,
                   decode>>

\* the mnemonic of a byte that is an instruction
MnemonicOf(b) == IF b <= MaxPushByte THEN "push" ELSE disasmdict[b]

\* one more instruction has been executed by the turn that led to m, unless
\* the byte is no instruction or the turn raised; a turn that suspends the
\* channel keeps the value its waita counter had before
Tally(m, b) ==
    /\ executed' =
          IF ~ m.crash /\ (b <= MaxPushByte \/ b \in DOMAIN disasmdict)
          THEN [executed EXCEPT ![MnemonicOf(b)] = @ + 1]
          ELSE executed
    /\ suspendstat' =
          IF colorstate[cur] = RUNNING /\ m.state[cur] = AWAIT
          THEN [suspendstat EXCEPT ![cur] = colorstat[cur]["waita"]]
          ELSE suspendstat

\* the turn just taken: the byte at ip, ip and the stack depth before it
Note(m, event) ==
    last' = [last EXCEPT ![cur] =
                [event |-> IF m.crash THEN "crash" ELSE event,
                 byte |-> IF colorstate[cur] = OVERRUN THEN -1
                          ELSE CodeAt(Machine, cur),
                 ip |-> colorip[cur],
                 depth |-> Len(colorstack[cur])]]

\* lines 530-538
RunNop ==
    /\ pc = "loop"
    /\ colorstate[cur] = RUNNING
    /\ CodeAt(Machine, cur) = NOP
    /\ LET m == TurnNop(Machine, cur)
       IN  Store(m) /\ Note(m, "nop") /\ Tally(m, NOP)
    /\ UNCHANGED resumed

\* lines 539-543
RunHalt ==
    /\ pc = "loop"
    /\ colorstate[cur] = RUNNING
    /\ CodeAt(Machine, cur) = HALT
    /\ LET m == TurnHalt(Machine, cur)
       IN  Store(m) /\ Note(m, "halt") /\ Tally(m, HALT)
    /\ UNCHANGED resumed

\* lines 544-549
RunExec ==
    /\ pc = "loop"
    /\ colorstate[cur] = RUNNING
    /\ CodeAt(Machine, cur) \notin {NOP, HALT}
    /\ \E in \in IF ReadsInput(CodeAt(Machine, cur)) THEN Inputs
                  ELSE {NoInput} :
          LET m == TurnExec(Machine, cur, in)
          IN  Store(m) /\ Note(m, "exec") /\ Tally(m, CodeAt(Machine, cur))
    /\ UNCHANGED resumed

\* lines 550-560: a channel in AWAIT that is the head of waitstack
Await ==
    /\ pc = "loop"
    /\ colorstate[cur] = AWAIT
    /\ waitstack = <<>> \/ IsHead(waitstack, cur)
    /\ LET m == TurnAwait(Machine, cur, NoInput)
       IN  /\ Store(m)
           /\ Note(m, IF Len(colorstack["a"]) >= 1 THEN "resume" ELSE "idle")
           /\ resumed' = IF m.state[cur] # AWAIT THEN Append(resumed, cur)
                         ELSE resumed
           /\ IF Len(colorstack["a"]) >= 1
              THEN Tally(m, CodeAt(Machine, cur))
              ELSE UNCHANGED <<executed, suspendstat>>

\* Skip advancing the instruction pointer of the channel it passes over
SkipAdvancing ==
    /\ pc = "loop"
    /\ colorstate[cur] # RUNNING
    /\ ~ (colorstate[cur] = AWAIT
            /\ (waitstack = <<>> \/ IsHead(waitstack, cur)))
    /\ Store([Machine EXCEPT !.ip[cur] = @ + 1]) /\ Note(Machine, "skip")
    /\ UNCHANGED <<resumed, executed, suspendstat>>

\* neither branch: HALTED, OVERRUN, or in AWAIT behind the head
Skip ==
    /\ pc = "loop"
    /\ colorstate[cur] # RUNNING
    /\ ~ (colorstate[cur] = AWAIT
            /\ (waitstack = <<>> \/ IsHead(waitstack, cur)))
    /\ Store(Machine) /\ Note(Machine, "skip")
    /\ UNCHANGED <<resumed, executed, suspendstat>>

\* lines 561-575; a next pass starts unless the loop is left
TerminationCheck ==
    /\ pc = "check"
    /\ LET v == Verdict(tmprun, tmpawait)
       IN  /\ terminate' = v.terminate
           /\ message' = v.message
           /\ pc' = IF v.terminate THEN "exit" ELSE "loop"
           /\ passes' = passes + 1
           /\ v.terminate \/ passes + 1 < MaxPasses
    /\ resumed' = <<>>
    /\ passwait' = waitstack
    /\ UNCHANGED <<size, colorcode, colorstate, colorip, colorstack,
                   colorstat, waitstack, output, color, last, executed,
                   suspendstat, decode>>

Next ==
    \/ RunNop
    \/ RunHalt
    \/ RunExec
    \/ Await
    \/ Skip
    \/ TerminationCheck

Spec == Init /\ [][Next]_vars

\* the while loop and the for-loop run on as long as a step is possible:
\* nothing but the end of the loop or an exception stops the interpreter
SpecLive == Spec /\ WF_vars(Next)

-----------------------------------------------------------------------------
(* The image decoder: header decode and pixel walk, lines 456-495 *)

MaxCols == 3
MaxCellSize == 2
MaxProgram == 7

V_MAJOR == 1
V_MINOR == 0

\* versions found in cell 0 of the images
Versions == {<<0, 1>>, <<1, 0>>, <<1, 1>>, <<2, 0>>}

CeilDiv(a, b) == (a + b - 1) \div b

\* an image is a grid of cols x rows cells, each a square of cell x cell
\* pixels of one colour, with just enough rows for the two header cells and
\* the program of the given length
TestImages ==
    { [cols |-> w, rows |-> CeilDiv(n + 2, w), cell |-> s,
       version |-> v, length |-> n] :
        w \in 1..MaxCols, s \in 1..MaxCellSize,
        v \in Versions, n \in 0..MaxProgram }

\* the colour of the cell with row-major index k: cell 0 holds the version
\* and the cell size, cell 1 the program length, cell k + 2 the three bytes
\* of program entry k (here push k, nop, halt); cells after the program
\* are filled with halt
CellValue(img, k) ==
    IF k = 0 THEN <<img.version[1], img.version[2], img.cell>>
    ELSE IF k = 1 THEN <<0, 0, img.length>>
    ELSE IF k < img.length + 2 THEN <<k - 2, NOP, HALT>>
    ELSE <<HALT, HALT, HALT>>

\* row-major index of the cell that holds pixel (x, y)
CellOf(img, x, y) == (y \div img.cell) * img.cols + (x \div img.cell)

\* (x, y) is a pixel of the image; img.getpixel raises IndexError otherwise
InImage(img, x, y) ==
    /\ 0 <= x /\ x < img.cols * img.cell
    /\ 0 <= y /\ y < img.rows * img.cell

\* img.getpixel((x, y))
getpixel(img, x, y) == CellValue(img, CellOf(img, x, y))

\* match size: the pixel of the first program cell
StartX(n, cellsize) == IF n <= 6 THEN 0 ELSE 2 * cellsize

StartY(n, cellsize) ==
    IF n = 1 THEN 2 * cellsize ELSE IF n <= 6 THEN cellsize ELSE 0

\* the interpreter before it opens the image
InitDecode ==
    /\ size = 0
    /\ colorcode = [c \in Channels |-> <<>>]
    /\ colorstate = [c \in Channels |-> LOADING]
    /\ colorip = [c \in Channels |-> 0]
    /\ colorstack = [c \in Channels \cup {"a"} |-> <<>>]
    /\ colorstat = ZeroStat
    /\ waitstack = <<>>
    /\ output = <<>>
    /\ terminate = FALSE
    /\ message = ""
    /\ pc = "load"
    /\ color = 1
    /\ passes = 0
    /\ resumed = <<>>
    /\ passwait = <<>>
    /\ last = [c \in Channels |->
                 [event |-> "init", byte |-> -1, ip |-> 0, depth |-> 0]]
    /\ executed = [n \in Mnemonics |-> 0]
    /\ suspendstat = [c \in Channels |-> 0]
    /\ \E img \in TestImages :
          decode = [Decoded EXCEPT !.phase = "header", !.img = img]

\* the decoder leaves the run-time state of the machine alone
DecodeFrame ==
    UNCHANGED <<colorip, colorstack, colorstat, waitstack, output, terminate,
                message, pc, color, passes, resumed, passwait, last,
                executed, suspendstat>>

\* lines 458-484: image size, cell 0, version check, cell 1, start pixel
ReadHeader ==
    /\ decode.phase = "header"
    /\ LET img == decode.img
           imgxsize == img.cols * img.cell
           imgysize == img.rows * img.cell
           first == getpixel(img, 0, 0)
           majorver == first[1]
           minorver == first[2]
           cellsize == first[3]
           hx == IF imgxsize = cellsize THEN 0 ELSE cellsize
           hy == IF imgxsize = cellsize THEN cellsize ELSE 0
           second == getpixel(img, hx, hy)
           n == second[1] * 256 * 256 + second[2] * 256 + second[3]
           d == [decode EXCEPT !.imgxsize = imgxsize, !.imgysize = imgysize,
                               !.majorver = majorver, !.minorver = minorver,
                               !.cellsize = cellsize]
       IN  IF majorver > V_MAJOR \/ (majorver = V_MAJOR /\ minorver > V_MINOR)
           THEN /\ decode' = [d EXCEPT !.phase = "exit"]
                /\ UNCHANGED size
           ELSE IF ~ InImage(img, hx, hy)
           THEN /\ decode' = [d EXCEPT !.phase = "crash"]
                /\ UNCHANGED size
           ELSE /\ size' = n
                /\ decode' = IF n = 0
                             THEN [d EXCEPT !.phase = "exit", !.i = 1]
                             ELSE [d EXCEPT !.phase = "walk", !.i = 1,
                                            !.x = StartX(n, cellsize),
                                            !.y = StartY(n, cellsize)]
    /\ UNCHANGED <<colorcode, colorstate>>
    /\ DecodeFrame

\* lines 486-495: one turn of the while loop
ReadCell ==
    /\ decode.phase = "walk"
    /\ decode.i <= size
    /\ LET img == decode.img
           x == decode.x
           y == decode.y
           pixel == getpixel(img, x, y)
           wrap == x + decode.cellsize > decode.imgxsize - 1
       IN  IF ~ InImage(img, x, y)
           THEN /\ decode' = [decode EXCEPT !.phase = "crash"]
                /\ UNCHANGED colorcode
           ELSE /\ colorcode' = [r |-> Append(colorcode["r"], pixel[1]),
                                 g |-> Append(colorcode["g"], pixel[2]),
                                 b |-> Append(colorcode["b"], pixel[3])]
                /\ decode' =
                     [decode EXCEPT
                        !.i = @ + 1,
                        !.x = IF wrap THEN 0 ELSE x + decode.cellsize,
                        !.y = IF wrap THEN y + decode.cellsize ELSE y,
                        !.cells = Append(@, CellOf(img, x, y))]
    /\ UNCHANGED <<size, colorstate>>
    /\ DecodeFrame

\* the while loop ends; lines 519-521: every channel becomes RUNNING
Finish ==
    /\ decode.phase = "walk"
    /\ decode.i > size
    /\ decode' = [decode EXCEPT !.phase = "done"]
    /\ colorstate' = [c \in Channels |-> RUNNING]
    /\ UNCHANGED <<size, colorcode>>
    /\ DecodeFrame

NextDecode == ReadHeader \/ ReadCell \/ Finish

SpecDecode == InitDecode /\ [][NextDecode]_vars

----------------------------------------------------------------------------
(* Properties *)

\* the for-loop over the three channels has just completed
AfterPass == pc = "check" \/ pc = "exit"

\* the turn about to be taken runs an instruction of the current channel
Running(c) == pc = "loop" /\ cur = c /\ colorstate[c] = RUNNING

Others(c) == Channels \ {c}

\* C1: whenever the scheduler terminates with "Thread deadlock", the alpha
\* stack is empty, so that one more pass could not have resumed a waiting
\* channel.
C1_DeadlockAlphaEmpty ==
    message = "Thread deadlock" => colorstack["a"] = <<>>

\* C2 as stated: in any single pass at most one channel in AWAIT is resumed.
C2_OneResumePerPass == Len(resumed) <= 1

\* C2 amended: in any single pass at most two channels in AWAIT are resumed,
\* and the channels resumed in a pass are, in order, the first entries of
\* the wait queue as it stood when the pass began.
C2_ResumedArePrefix ==
    /\ Len(resumed) <= 2
    /\ Len(resumed) <= Len(passwait)
    /\ \A i \in 1..Len(resumed) : resumed[i] = passwait[i]

\* C2 witness: two channels have been resumed in the same pass
C2_TwoResumed == Len(resumed) = 2

\* C3: channels leave AWAIT in the order they entered it: a channel leaves
\* AWAIT only as the head of the wait queue and is removed from it by that
\* step; the wait queue otherwise changes only by a waita of a RUNNING
\* channel that appends this channel and suspends it.
C3_FifoOrder ==
    [][ /\ \A c \in Channels :
              (colorstate[c] = AWAIT /\ colorstate'[c] # AWAIT) =>
                  /\ waitstack # <<>>
                  /\ Head(waitstack) = c
                  /\ waitstack' = Tail(waitstack)
        /\ waitstack' # waitstack =>
              \/ /\ waitstack # <<>>
                 /\ waitstack' = Tail(waitstack)
                 /\ colorstate[Head(waitstack)] = AWAIT
                 /\ colorstate'[Head(waitstack)] # AWAIT
              \/ \E c \in Channels :
                    /\ Running(c)
                    /\ CodeAt(Machine, c) = WAITA
                    /\ colorstate'[c] = AWAIT
                    /\ waitstack' = Append(waitstack, c) ]_vars

\* C3 witness: the head has just been resumed while another channel is
\* still queued behind it
C3_HeadResumedFirst ==
    \E c \in Channels :
        /\ last[c].event = "resume"
        /\ resumed = <<c>>
        /\ waitstack # <<>>
        /\ Len(passwait) = 2
        /\ passwait[1] = c

\* C4: after every pass a channel is in the wait queue iff it is in AWAIT,
\* and no channel is queued twice.
C4_QueueIsAwaitSet ==
    AfterPass =>
        /\ \A c \in Channels :
              (\E i \in 1..Len(waitstack) : waitstack[i] = c)
                  <=> colorstate[c] = AWAIT
        /\ \A i, j \in 1..Len(waitstack) :
              waitstack[i] = waitstack[j] => i = j

\* C4 witness: a pass ends with two channels queued and one not
C4_TwoQueued == pc = "check" /\ Len(waitstack) = 2

\* C5: 0 <= ip[c] <= size for every channel after every turn of the
\* for-loop, hence after every pass.
C5_IpInRange ==
    \A c \in Channels : 0 <= colorip[c] /\ colorip[c] <= size

\* C5 witness: a pass in which r, past its first cell, took a jump to
\* address 0
C5_JumpToZeroTaken ==
    /\ pc = "check"
    /\ last["r"].byte \in {JMPZ, JMPNZ}
    /\ last["r"].event = "exec"
    /\ last["r"].depth >= 2
    /\ last["r"].ip > 0
    /\ colorip["r"] = 0

\* C6: state[c] = OVERRUN iff ip[c] = size, after every turn of the
\* for-loop, hence after every pass.
C6_OverrunIffIpAtSize ==
    \A c \in Channels : colorstate[c] = OVERRUN <=> colorip[c] = size

\* C6 witness: a pass ends with one channel overrun and another one not
C6_OneOverrun ==
    /\ pc = "check"
    /\ colorstate["r"] = OVERRUN
    /\ colorstate["g"] = RUNNING
    /\ colorip["g"] < size

\* a div or rem about to be executed on a zero divisor
DivisionByZero(c) ==
    /\ Running(c)
    /\ CodeAt(Machine, c) \in {DIV, REM}
    /\ Len(colorstack[c]) >= 2
    /\ Top(Pop(colorstack[c])) = 0

\* C7: a div or rem on a zero divisor halts the executing channel only; the
\* other channels keep their state and the scheduler goes on.
C7_DivisionByZeroHaltsChannel ==
    [][ \A c \in Channels :
          DivisionByZero(c) =>
              /\ colorstate'[c] = HALTED
              /\ \A o \in Others(c) : colorstate'[o] = colorstate[o]
              /\ pc' # "crash" ]_vars

\* a byte in 128..255 that is no instruction is about to be executed
InvalidOpcode(c) ==
    /\ Running(c)
    /\ CodeAt(Machine, c) > MaxPushByte
    /\ CodeAt(Machine, c) \notin DOMAIN disasmdict

\* C8: an unassigned byte, at any index, leaves the executing channel
\* HALTED and the other channels as they were.
C8_InvalidOpcodeHaltsChannel ==
    [][ \A c \in Channels :
          InvalidOpcode(c) =>
              /\ colorstate'[c] = HALTED
              /\ \A o \in Others(c) : colorstate'[o] = colorstate[o]
              /\ pc' # "crash" ]_vars

\* the declared arity of the opcodes that take operands
Arity ==
    (ADD :> 2) @@ (SUB :> 2) @@ (MUL :> 2) @@ (DIV :> 2) @@ (REM :> 2) @@
    (POP :> 1) @@ (SWAP :> 2) @@ (DUP :> 1) @@ (NOT :> 1) @@ (OR :> 2) @@
    (AND :> 2) @@ (GT :> 2) @@ (EQ :> 2) @@ (LT :> 2) @@ (JMPZ :> 2) @@
    (JMPNZ :> 2) @@ (OUTC :> 1) @@ (OUTI :> 1) @@ (PUSHA :> 1) @@
    (NEG :> 1) @@ (SHL :> 2) @@ (SHR :> 2)

\* the instruction about to be executed finds fewer operands than its arity;
\* the arity of rot is 1 + n for the count n on top of the stack
Underflow(c) ==
    LET b == CodeAt(Machine, c)
        s == colorstack[c]
    IN  /\ Running(c)
        /\ \/ b \in DOMAIN Arity /\ Len(s) < Arity[b]
           \/ b = ROT /\ (Len(s) = 0 \/ Len(s) < 1 + Top(s))

\* C9: an instruction that finds fewer operands than its arity leaves the
\* stack as it was, adds one to its counter and advances ip by one.
C9_UnderflowIsNoOp ==
    [][ \A c \in Channels :
          Underflow(c) =>
              /\ colorstack'[c] = colorstack[c]
              /\ colorstat' = [colorstat EXCEPT
                    ![c][disasmdict[CodeAt(Machine, c)]] = @ + 1]
              /\ colorip'[c] = colorip[c] + 1 ]_vars

\* C10: the loop is left at the end of a pass iff no channel is RUNNING
\* then, with "Threads halted" iff no channel is in AWAIT and with "Thread
\* deadlock" iff one is; otherwise another pass starts.  Nothing else sets
\* the exit flag or emits one of the two messages.
C10_TerminationCheck ==
    [][ LET norun == \A c \in Channels : colorstate[c] # RUNNING
            waiting == \E c \in Channels : colorstate[c] = AWAIT
        IN  /\ pc = "check" =>
                  /\ terminate' <=> norun
                  /\ terminate' =>
                        /\ pc' = "exit"
                        /\ message' = "Threads halted" <=> ~ waiting
                        /\ message' = "Thread deadlock" <=> waiting
                  /\ ~ terminate' =>
                        /\ pc' = "loop"
                        /\ color' = 1
                        /\ message' = ""
            /\ pc # "check" =>
                  /\ terminate' = terminate
                  /\ message' = message ]_vars

\* C10 witness: the loop has been left on a deadlock after a pass in which
\* a channel was still RUNNING
C10_DeadlockAfterSecondPass ==
    /\ terminate
    /\ pc = "exit"
    /\ message = "Thread deadlock"
    /\ passes >= 2

\* a jmpz or jmpnz about to be executed on at least two operands
Jump(c) ==
    /\ Running(c)
    /\ CodeAt(Machine, c) \in {JMPZ, JMPNZ}
    /\ Len(colorstack[c]) >= 2

\* the value and the address the jump will pop
JumpValue(c) == Top(colorstack[c])

JumpAddress(c) == Top(Pop(colorstack[c]))

\* the condition of the jump is met
Taken(c) ==
    IF CodeAt(Machine, c) = JMPZ THEN JumpValue(c) = 0 ELSE JumpValue(c) # 0

InRange(address) == 0 <= address /\ address < size

\* C11: a jmpz (jmpnz) on at least two operands pops both; taken to an
\* address in range it leaves the channel RUNNING at ip = addr, and not
\* taken it advances ip by exactly one.
C11_JumpLandsAtAddress ==
    [][ \A c \in Channels :
          Jump(c) =>
              /\ colorstack'[c] = Pop(Pop(colorstack[c]))
              /\ (Taken(c) /\ InRange(JumpAddress(c))) =>
                    /\ colorip'[c] = JumpAddress(c)
                    /\ colorstate'[c] = RUNNING
              /\ ~ Taken(c) => colorip'[c] = colorip[c] + 1 ]_vars

\* C11 witness: r has just jumped backwards from cell 3 to cell 1
C11_JumpedBack ==
    /\ last["r"].byte \in {JMPZ, JMPNZ}
    /\ last["r"].event = "exec"
    /\ last["r"].depth >= 2
    /\ last["r"].ip = 3
    /\ colorip["r"] = 1
    /\ colorstate["r"] = RUNNING
    /\ color = 2

\* C12 as stated: a taken jump to an address out of range ends its turn
\* with ip = size - 1, the channel not yet OVERRUN.
C12_OverrunNextIteration ==
    [][ \A c \in Channels :
          (Jump(c) /\ Taken(c) /\ ~ InRange(JumpAddress(c))) =>
              /\ colorip'[c] = size - 1
              /\ colorstate'[c] # OVERRUN ]_vars

\* C12 amended: a taken jump to an address out of range ends its turn with
\* ip = size and the channel OVERRUN, in the iteration that executed the
\* jump: colorexec stores size - 1 and the main sequence adds one.
C12_OverrunSameIteration ==
    [][ \A c \in Channels :
          (Jump(c) /\ Taken(c) /\ ~ InRange(JumpAddress(c))) =>
              /\ colorip'[c] = size
              /\ colorstate'[c] = OVERRUN ]_vars

\* C12 witness: r is OVERRUN by a jump executed before its last cell
C12_JumpedOut ==
    /\ last["r"].byte \in {JMPZ, JMPNZ}
    /\ last["r"].event = "exec"
    /\ last["r"].depth >= 2
    /\ last["r"].ip < size - 1
    /\ colorstate["r"] = OVERRUN
    /\ colorstack["r"] = <<>>

\* the image of scenario S6 is loaded
IsS6 == colorcode = [c \in Channels |-> S6Image[c]]

\* C13 as stated: S6 writes exactly one integer, 5.
C13_S6Writes5 ==
    (IsS6 /\ pc = "exit") => output = << <<"i", 5>> >>

\* C13 amended: S6 writes exactly one integer, 99: the jump lands on cell
\* 4, the push 99, so that outi pops 99 and 5 stays on the stack.
C13_S6Writes99 ==
    IsS6 =>
        /\ Len(output) <= 1
        /\ pc = "exit" =>
              /\ output = << <<"i", 99>> >>
              /\ colorstack["r"] = <<5>>

\* C13 witness: S6 has run to the end
C13_S6Halted ==
    /\ IsS6
    /\ pc = "exit"
    /\ message = "Threads halted"
    /\ colorstat["r"]["jmpz"] = 1
    /\ colorstat["r"]["outi"] = 1

\* stat[c][op] summed over the channels
StatSum(op) ==
    colorstat["r"][op] + colorstat["g"][op] + colorstat["b"][op]

\* C14: after every pass and for every opcode, the counters summed over the
\* channels equal the number of instructions of that opcode executed so
\* far; turns spent in AWAIT add to no counter.
C14_CountersMatchExecutions ==
    AfterPass => \A op \in Mnemonics : StatSum(op) = executed[op]

\* the turn about to be taken visits channel c, in AWAIT at the head of the queue
Waiting(c) ==
    /\ pc = "loop"
    /\ cur = c
    /\ colorstate[c] = AWAIT
    /\ IsHead(waitstack, c)

\* the turn about to be taken is a waita of channel c that will suspend it
Suspending(c) ==
    /\ Running(c)
    /\ CodeAt(Machine, c) = WAITA
    /\ colorstack["a"] = <<>>

Pushing(c) ==
    /\ Running(c)
    /\ CodeAt(Machine, c) = PUSHA
    /\ Len(colorstack[c]) >= 1

\* the turn about to be taken is a waita or a resumption that finds a value
Taking(c) ==
    /\ colorstack["a"] # <<>>
    /\ \/ Running(c) /\ CodeAt(Machine, c) = WAITA
       \/ Waiting(c)

\* C16: alpha changes only by a pusha with an operand, which appends the
\* popped top of the channel's stack, and by a waita or a resumption that
\* finds a value, which removes the top; every other step leaves it alone.
C16_AlphaFrame ==
    [][ IF \E c \in Channels : Pushing(c)
        THEN /\ colorstack'["a"] = Append(colorstack["a"], Top(colorstack[cur]))
             /\ colorstack'[cur] = Pop(colorstack[cur])
        ELSE IF \E c \in Channels : Taking(c)
             THEN /\ colorstack'["a"] = Pop(colorstack["a"])
                  /\ colorstack'[cur] =
                        Append(colorstack[cur], Top(colorstack["a"]))
             ELSE colorstack'["a"] = colorstack["a"] ]_vars

\* C16 witness: g has pushed a value to alpha and r, resumed, has taken it
C16_PushedAndTaken ==
    /\ last["g"].byte = PUSHA
    /\ last["g"].event = "exec"
    /\ last["g"].depth >= 1
    /\ last["r"].event = "resume"
    /\ colorstack["a"] = <<>>
    /\ Len(colorstack["r"]) >= 1

\* C18: shr on at least two values pops s then v and pushes v >> s, the
\* right shift of v by s >= 0 (the floor of v / 2^s).
C18_ShrShiftsRight ==
    [][ \A c \in Channels :
          (/\ Running(c)
           /\ CodeAt(Machine, c) = SHR
           /\ Len(colorstack[c]) >= 2
           /\ Top(colorstack[c]) >= 0) =>
              colorstack'[c] =
                  Append(Pop(Pop(colorstack[c])),
                         FloorDiv(Top(Pop(colorstack[c])),
                                  Pow2(Top(colorstack[c])))) ]_vars

\* the image of scenario S4 is loaded
IsS4 == colorcode = [c \in Channels |-> S4Image[c]]

\* C19: the turn of a channel in AWAIT at the head of the queue, alpha
\* non-empty, removes it from the queue, moves the top of alpha to its stack
\* and leaves it just after the waita, RUNNING, or OVERRUN if the waita was
\* the last cell; S4 ends with the output 42 and all channels HALTED.
C19_Resumption ==
    [][ /\ \A c \in Channels :
             (Waiting(c) /\ colorstack["a"] # <<>>) =>
                 /\ CodeAt(Machine, c) = WAITA
                 /\ waitstack' = Tail(waitstack)
                 /\ colorstack'["a"] = Pop(colorstack["a"])
                 /\ colorstack'[c] = Append(colorstack[c], Top(colorstack["a"]))
                 /\ colorip'[c] = colorip[c] + 1
                 /\ colorstate'[c] = IF colorip[c] + 1 = size THEN OVERRUN
                                     ELSE RUNNING
        /\ (IsS4 /\ pc' = "exit") =>
                 /\ output' = << <<"i", 42>> >>
                 /\ \A c \in Channels : colorstate'[c] = HALTED ]_vars

\* C19 witness: S4 has ended, g suspended once and resumed once
C19_S4Delivered ==
    /\ IsS4
    /\ pc = "exit"
    /\ message = "Threads halted"
    /\ suspendstat["g"] = 0
    /\ colorstat["g"]["waita"] = 3
    /\ output = << <<"i", 42>> >>

\* C20: while the wait queue is non-empty, only the turn of the channel in
\* AWAIT at its head removes a value from alpha.
C20_OnlyHeadConsumes ==
    [][ (/\ pc = "loop"
         /\ waitstack # <<>>
         /\ Len(colorstack'["a"]) < Len(colorstack["a"])) =>
            Waiting(cur) ]_vars

\* C17: entry k of the code arrays is read from the cell with row-major
\* index k + 2, whatever the width of the image, so that no header cell is
\* read as a program cell, and the arrays end with length size.
C17_ProgramCellsRead ==
    /\ \A j \in 1..Len(decode.cells) : decode.cells[j] = j + 1
    /\ decode.phase = "done" =>
          \A c \in Channels : Len(colorcode[c]) = size

\* the program of size 1 whose single cell is halt on every channel
IsHaltProgram == size = 1 /\ colorcode = [c \in Channels |-> <<HALT>>]

\* C21: a RUNNING channel at a halt becomes HALTED, its ip and stack
\* unchanged and its halt counter, and no other, one higher; the size-1
\* program of three halts ends at the check of its first pass, all channels
\* HALTED, with "Threads halted".
C21_Halt ==
    [][ /\ \A c \in Channels :
             (Running(c) /\ CodeAt(Machine, c) = HALT) =>
                 /\ colorstate'[c] = HALTED
                 /\ colorip'[c] = colorip[c]
                 /\ colorstack'[c] = colorstack[c]
                 /\ colorstat'[c] =
                       [colorstat[c] EXCEPT !["halt"] = @ + 1]
        /\ (IsHaltProgram /\ pc = "check") =>
                 /\ pc' = "exit"
                 /\ passes' = 1
                 /\ terminate'
                 /\ message' = "Threads halted"
                 /\ \A c \in Channels : colorstate'[c] = HALTED ]_vars

\* C21 witness: the program of three halts has ended after one pass
C21_HaltProgramEnded ==
    /\ IsHaltProgram
    /\ pc = "exit"
    /\ passes = 1
    /\ message = "Threads halted"
    /\ \A c \in Channels :
          /\ colorstate[c] = HALTED
          /\ colorip[c] = 0
          /\ colorstat[c]["halt"] = 1

\* channel c has stopped for good
Stopped(c) == colorstate[c] \in {HALTED, OVERRUN}

\* C22: HALTED and OVERRUN are absorbing: no step changes the state, ip,
\* stack or counters of a channel that is HALTED or OVERRUN, whatever the
\* other channels do.
C22_StoppedIsAbsorbing ==
    [][ \A c \in Channels :
          Stopped(c) =>
              /\ colorstate'[c] = colorstate[c]
              /\ colorip'[c] = colorip[c]
              /\ colorstack'[c] = colorstack[c]
              /\ colorstat'[c] = colorstat[c] ]_vars

\* C22 witness: r, OVERRUN, and b, HALTED, have been passed over in a later
\* pass while g was still running
C22_StoppedPassedOver ==
    /\ colorstate["r"] = OVERRUN
    /\ colorstate["b"] = HALTED
    /\ last["r"].event = "skip"
    /\ last["b"].event = "skip"
    /\ last["g"].event = "exec"
    /\ colorstate["g"] = RUNNING
    /\ passes >= 2

\* no channel of the program holds a jmpz or a jmpnz
JumpFree ==
    \A c \in Channels : \A k \in 1..size :
        colorcode[c][k] \notin {JMPZ, JMPNZ}

\* the loop has ended by its termination check, no channel RUNNING
Terminated ==
    /\ pc = "exit"
    /\ terminate
    /\ \A c \in Channels : colorstate[c] # RUNNING

\* the interpreter has been ended by the exception of a div or a rem
DivisionCrash ==
    /\ pc = "crash"
    /\ last[cur].byte \in {DIV, REM}

\* the loop of a program without jumps is left, one way or the other
JumpFreeLeavesLoop ==
    JumpFree => <>(pc \in {"exit", "crash"})

\* C23: a program without jmpz and jmpnz, run without a div or rem by
\* zero, eventually terminates: after finitely many passes the loop ends
\* with no channel RUNNING.
C23_JumpFreeTerminates ==
    JumpFree => <>(Terminated \/ DivisionCrash)

====
